---- MODULE Spec2Model ----
(***************************************************************************)
(* A model of the property-enrichment program: the text helpers of         *)
(* gemini/gemini_service.py (truncate_text, parse_rating_review), the      *)
(* retrying client interact_with_gemini, and the batch command             *)
(* rewrite_properties (select_best_title, handle).                         *)
(*                                                                         *)
(* A Python str is modelled as a sequence of one-character strings.        *)
(***************************************************************************)
EXTENDS Integers, Sequences, FiniteSets, TLC

VARIABLES
    trunc,      \* one call of truncate_text: its arguments and its result
    parse,      \* one call of parse_rating_review: its argument and its result
    client,     \* one call of interact_with_gemini: its loop and what it has done
    select,     \* one call of select_best_title: its arguments and what it returned
    db,         \* the committed rows of Property, Summary and PropertyRating
    txn,        \* the rows as the open transaction.atomic() block sees them
    pc,         \* the position of Command.handle
    properties, \* the rows handle fetched
    idx,        \* the index in properties of the row being processed
    processed_count,
    locals,     \* the local variables of the loop body
    events,     \* the calls the loop body has made for the current row, in order
    ghost       \* bookkeeping of the run: rows entered, units committed, rows in all runs

batch == <<db, txn, pc, properties, idx, processed_count, locals, events, ghost>>

vars == <<trunc, parse, client, select, batch>>

(***************************************************************************)
(* Python str and list primitives                                          *)
(***************************************************************************)
NL == "\n"

\* str.isspace() on the characters the model uses
Whitespace == {" ", NL}

Min(a, b) == IF a <= b THEN a ELSE b

Max(a, b) == IF a >= b THEN a ELSE b

\* s[:n], Python's slice: a negative n counts from the end of s
PySlice(s, n) ==
    IF n >= 0 THEN SubSeq(s, 1, Min(n, Len(s)))
    ELSE SubSeq(s, 1, Max(Len(s) + n, 0))

\* s[n:], n >= 0
PyFrom(s, n) == SubSeq(s, n + 1, Len(s))

\* list[:-1]
DropLast(l) == SubSeq(l, 1, Len(l) - 1)

\* the least index of character c in s, or 0
IndexOf(s, c) ==
    IF \E i \in 1..Len(s) : s[i] = c
    THEN CHOOSE i \in 1..Len(s) : s[i] = c /\ \A j \in 1..(i - 1) : s[j] # c
    ELSE 0

\* s.split(c) for a one-character separator c
RECURSIVE Split(_, _)
Split(s, c) ==
    LET i == IndexOf(s, c)
    IN  IF i = 0 THEN <<s>>
        ELSE <<SubSeq(s, 1, i - 1)>> \o Split(PyFrom(s, i), c)

\* the least index of a whitespace (ws = TRUE) or non-whitespace character, or 0
IndexOfWs(s, ws) ==
    IF \E i \in 1..Len(s) : (s[i] \in Whitespace) = ws
    THEN CHOOSE i \in 1..Len(s) :
            /\ (s[i] \in Whitespace) = ws
            /\ \A j \in 1..(i - 1) : (s[j] \in Whitespace) # ws
    ELSE 0

\* s.split(): the maximal runs of non-whitespace characters
RECURSIVE SplitWs(_)
SplitWs(s) ==
    LET b == IndexOfWs(s, FALSE)
    IN  IF b = 0 THEN <<>>
        ELSE LET rest == PyFrom(s, b - 1)
                 e    == IndexOfWs(rest, TRUE)
             IN  IF e = 0 THEN <<rest>>
                 ELSE <<SubSeq(rest, 1, e - 1)>> \o SplitWs(PyFrom(rest, e))

\* sep.join(l)
RECURSIVE Join(_, _)
Join(l, sep) ==
    IF l = <<>> THEN <<>>
    ELSE IF Len(l) = 1 THEN l[1]
    ELSE l[1] \o sep \o Join(Tail(l), sep)

\* s.strip()
Strip(s) ==
    LET b == IndexOfWs(s, FALSE)
    IN  IF b = 0 THEN <<>>
        ELSE LET e == CHOOSE i \in b..Len(s) :
                        /\ s[i] \notin Whitespace
                        /\ \A j \in (i + 1)..Len(s) : s[j] \in Whitespace
             IN  SubSeq(s, b, e)

\* s.startswith(p)
StartsWith(s, p) == Len(s) >= Len(p) /\ SubSeq(s, 1, Len(p)) = p

\* the substring p occurs in s at index i
OccursAt(s, p, i) == i >= 1 /\ i + Len(p) - 1 <= Len(s) /\ SubSeq(s, i, i + Len(p) - 1) = p

\* the least index at or after `from` where p occurs in s, or 0
Find(s, p, from) ==
    IF \E i \in from..Len(s) : OccursAt(s, p, i)
    THEN CHOOSE i \in from..Len(s) :
            OccursAt(s, p, i) /\ \A j \in from..(i - 1) : ~OccursAt(s, p, j)
    ELSE 0

\* the first n characters of unit repeated
Fill(unit, n) == [i \in 1..n |-> unit[((i - 1) % Len(unit)) + 1]]

(***************************************************************************)
(* gemini_service.py: truncate_text                                        *)
(***************************************************************************)
Ellipsis == <<".", ".", ".">>

TruncateBudget_NoReserve(max_length, add_ellipsis) == max_length

\* lines 28-29: leave room for the ellipsis
TruncateBudget(max_length, add_ellipsis) ==
    IF add_ellipsis THEN max_length - 3 ELSE max_length

truncate_text(text, max_length, add_ellipsis) ==
    IF Len(text) <= max_length THEN text
    ELSE LET prefix    == PySlice(text, TruncateBudget(max_length, add_ellipsis))
             sentences == Split(prefix, ".")
             truncated == IF Len(sentences) > 1
                          THEN Join(DropLast(sentences), <<".">>) \o <<".">>
                          ELSE Join(DropLast(SplitWs(prefix)), <<" ">>)
         IN  IF add_ellipsis THEN truncated \o Ellipsis ELSE truncated

(***************************************************************************)
(* gemini_service.py: parse_rating_review                                  *)
(***************************************************************************)
MAX_TITLE_LENGTH == 100
MAX_DESCRIPTION_LENGTH == 200
MAX_SUMMARY_LENGTH == 100
MAX_REVIEW_LENGTH == 100

RatingLabel == <<"R", "a", "t", "i", "n", "g", ":">>
ReviewLabel == <<"R", "e", "v", "i", "e", "w", ":">>

Digits == {"0", "1", "2", "3", "4", "5", "6", "7", "8", "9"}

DigitVal(c) ==
    CASE c = "0" -> 0 [] c = "1" -> 1 [] c = "2" -> 2 [] c = "3" -> 3 [] c = "4" -> 4
      [] c = "5" -> 5 [] c = "6" -> 6 [] c = "7" -> 7 [] c = "8" -> 8 [] c = "9" -> 9

RECURSIVE DigitsToInt(_)
DigitsToInt(d) ==
    IF d = <<>> THEN 0 ELSE 10 * DigitsToInt(DropLast(d)) + DigitVal(d[Len(d)])

RECURSIVE Pow10(_)
Pow10(n) == IF n = 0 THEN 1 ELSE 10 * Pow10(n - 1)

\* the end of the maximal run of digits of s that starts at index j (j - 1 when there is none)
DigitRunEnd(s, j) ==
    CHOOSE k \in (j - 1)..Len(s) :
        /\ \A m \in j..k : s[m] \in Digits
        /\ (k = Len(s) \/ s[k + 1] \notin Digits)

\* the index just after the whitespace run of s that starts at index j
SkipWs(s, j) ==
    CHOOSE k \in j..(Len(s) + 1) :
        /\ \A m \in j..(k - 1) : s[m] \in Whitespace
        /\ (k = Len(s) + 1 \/ s[k] \notin Whitespace)

\* r'Rating:\s*(\d+\.?\d*)' matches at index i of s
RatingMatchesAt(s, i) ==
    /\ OccursAt(s, RatingLabel, i)
    /\ LET j == SkipWs(s, i + Len(RatingLabel))
       IN  j <= Len(s) /\ s[j] \in Digits

\* a float as the decimal numeral it was read from: num / 10^scale
NoRating == [num |-> 0, scale |-> 0]

\* re.search(r'Rating:\s*(\d+\.?\d*)', text) and float(group(1))
RatingSearch(s) ==
    IF \E i \in 1..Len(s) : RatingMatchesAt(s, i)
    THEN LET i  == CHOOSE i \in 1..Len(s) :
                      RatingMatchesAt(s, i) /\ \A j \in 1..(i - 1) : ~RatingMatchesAt(s, j)
             b  == SkipWs(s, i + Len(RatingLabel))
             e  == DigitRunEnd(s, b)
             dot == e < Len(s) /\ s[e + 1] = "."
             f  == IF dot THEN DigitRunEnd(s, e + 2) ELSE e
             frac == IF dot THEN SubSeq(s, e + 2, f) ELSE <<>>
         IN  [found |-> TRUE,
              rating |-> [num |-> DigitsToInt(SubSeq(s, b, e) \o frac), scale |-> Len(frac)]]
    ELSE [found |-> FALSE, rating |-> NoRating]

\* re.search(r'Review:(.*?)(?=Rating:|$)', text, re.DOTALL) and group(1)
ReviewSearch(s) ==
    LET i == Find(s, ReviewLabel, 1)
    IN  IF i = 0 THEN [found |-> FALSE, group |-> <<>>]
        ELSE LET b == i + Len(ReviewLabel)
                 r == Find(s, RatingLabel, b)
                 \* $ matches at the end and just before a newline that ends the string
                 d == IF Len(s) >= b /\ s[Len(s)] = NL THEN Len(s) ELSE Len(s) + 1
                 e == IF r # 0 THEN Min(r, d) ELSE d
             IN  [found |-> TRUE, group |-> SubSeq(s, b, e - 1)]

\* not 0 <= rating <= 5
RatingOutOfRange(r) == ~(0 <= r.num /\ r.num <= 5 * Pow10(r.scale))

ParseFailed == "Failed to parse rating/review: "
NoRatingFound == "No rating found in response"
NoReviewFound == "No review found in response"
OutOfRange == "Rating {rating} is out of range (0-5)"

ParseError(msg, r) == [ok |-> FALSE, rating |-> r, review |-> <<>>, prefix |-> ParseFailed, error |-> msg]

\* lines 77-95 with the range check ahead of the review search
parse_rating_review_RangeFirst(text) ==
    LET rm == RatingSearch(text)
        vm == ReviewSearch(text)
    IN  IF ~rm.found THEN ParseError(NoRatingFound, NoRating)
        ELSE IF RatingOutOfRange(rm.rating) THEN ParseError(OutOfRange, rm.rating)
        ELSE IF ~vm.found THEN ParseError(NoReviewFound, NoRating)
        ELSE [ok |-> TRUE, rating |-> rm.rating,
              review |-> truncate_text(Strip(vm.group), MAX_REVIEW_LENGTH, TRUE),
              prefix |-> "", error |-> ""]

parse_rating_review(text) ==
    LET rm == RatingSearch(text)
        vm == ReviewSearch(text)
    IN  IF ~rm.found THEN ParseError(NoRatingFound, NoRating)
        ELSE IF ~vm.found THEN ParseError(NoReviewFound, NoRating)
        ELSE IF RatingOutOfRange(rm.rating) THEN ParseError(OutOfRange, rm.rating)
        ELSE [ok |-> TRUE, rating |-> rm.rating,
              review |-> truncate_text(Strip(vm.group), MAX_REVIEW_LENGTH, TRUE),
              prefix |-> "", error |-> ""]

(***************************************************************************)
(* The remote endpoint's replies                                           *)
(*                                                                         *)
(* A JSON value is [t |-> its Python type, d |-> its content]: a dict is a *)
(* function from keys, a list a sequence, a str a sequence of characters.  *)
(***************************************************************************)
JDict(f) == [t |-> "dict", d |-> f]
JList(l) == [t |-> "list", d |-> l]
JStr(c)  == [t |-> "str", d |-> c]
JNull    == [t |-> "NoneType", d |-> <<>>]

CandidatesKey == <<"c", "a", "n", "d", "i", "d", "a", "t", "e", "s">>

Parts(p) == JDict([candidates |-> JList(<<JDict([content |-> JDict([parts |-> p])])>>)])

\* the bodies a reply with status 200 can carry, by name; text is the model's output
Envelope(body, text) ==
    CASE body = "valid"              -> Parts(JList(<<JDict([text |-> JStr(text)])>>))
      [] body = "no_candidates"      -> JDict([error |-> JStr(<<"x">>)])
      [] body = "empty_candidates"   -> JDict([candidates |-> JList(<<>>)])
      [] body = "no_content"         -> JDict([candidates |-> JList(<<JDict([finishReason |-> JStr(<<"x">>)])>>)])
      [] body = "no_parts"           -> JDict([candidates |-> JList(<<JDict([content |-> JDict([role |-> JStr(<<"x">>)])])>>)])
      [] body = "empty_parts"        -> Parts(JList(<<>>))
      [] body = "no_text"            -> Parts(JList(<<JDict([inlineData |-> JStr(<<"x">>)])>>))
      [] body = "content_is_list"    -> JDict([candidates |-> JList(<<JDict([content |-> JList(<<JStr(text)>>)])>>)])
      [] body = "candidates_is_dict" -> JDict([candidates |-> JDict([first |-> JStr(text)])])
      [] body = "candidates_is_str"  -> JDict([candidates |-> JStr(<<"x">>)])
      [] body = "top_level_list"     -> JList(<<JStr(CandidatesKey)>>)
      [] body = "top_level_null"     -> JNull

NotJson == "not_json"

JsonBodies ==
    {"valid", "no_candidates", "empty_candidates", "no_content", "no_parts", "empty_parts",
     "no_text", "content_is_list", "candidates_is_dict", "candidates_is_str",
     "top_level_list", "top_level_null"}

\* the result of evaluating a Python expression: a value, or the exception raised
Value(v) == [exc |-> "", val |-> v]
Raised(e) == [exc |-> e, val |-> JNull]

\* key in v
PyContains(v, key, keyChars) ==
    CASE v.t = "dict" -> Value(key \in DOMAIN v.d)
      [] v.t = "list" -> Value(\E i \in 1..Len(v.d) : v.d[i].t = "str" /\ v.d[i].d = keyChars)
      [] v.t = "str"  -> Value(Find(v.d, keyChars, 1) # 0 \/ keyChars = <<>>)
      [] OTHER        -> Raised("TypeError")

\* bool(v)
PyTruthy(v) ==
    CASE v.t = "dict" -> DOMAIN v.d # {}
      [] v.t = "list" -> Len(v.d) > 0
      [] v.t = "str"  -> Len(v.d) > 0
      [] OTHER        -> FALSE

\* r[key] for a str key, r the result of the expression before it
PyGetKey(r, key) ==
    IF r.exc # "" THEN r
    ELSE IF r.val.t = "dict"
         THEN IF key \in DOMAIN r.val.d THEN Value(r.val.d[key]) ELSE Raised("KeyError")
         ELSE Raised("TypeError")

\* r[0]
PyGetFirst(r) ==
    IF r.exc # "" THEN r
    ELSE CASE r.val.t = "dict" -> Raised("KeyError")
           [] r.val.t = "list" -> IF Len(r.val.d) > 0 THEN Value(r.val.d[1]) ELSE Raised("IndexError")
           [] r.val.t = "str"  -> IF Len(r.val.d) > 0 THEN Value(JStr(<<r.val.d[1]>>)) ELSE Raised("IndexError")
           [] OTHER            -> Raised("TypeError")

(***************************************************************************)
(* gemini_service.py: interact_with_gemini                                 *)
(***************************************************************************)
retries == 5

UnexpectedFormat == "Unexpected response format from Gemini API"
StatusFailed == "Gemini API call failed with status code {status_code}: {text}"
MaxRetriesExceeded == "Max retries exceeded: {e}"
AfterMultipleRetries == "Gemini API call failed after multiple retries."

ContentTypes == {"title", "description", "summary", "review", "None"}

NoOutcome == [kind |-> "none", text |-> <<>>, exc |-> "", msg |-> "", status |-> 0, body |-> "", sleep |-> 0]

Return(text) == [NoOutcome EXCEPT !.kind = "return", !.text = text]
Raise(exc, msg) == [NoOutcome EXCEPT !.kind = "raise", !.exc = exc, !.msg = msg]
Retry(seconds) == [NoOutcome EXCEPT !.kind = "retry", !.sleep = seconds]

ApplyContentType_NoLimit(text, content_type) == text

\* lines 137-145: the length limit of the content type
ApplyContentType(text, content_type) ==
    CASE content_type = "description" -> truncate_text(text, MAX_DESCRIPTION_LENGTH, TRUE)
      [] content_type = "summary"     -> truncate_text(text, MAX_SUMMARY_LENGTH, TRUE)
      [] content_type = "review"      -> truncate_text(text, MAX_REVIEW_LENGTH, TRUE)
      [] OTHER                        -> text

\* the exceptions the inner handler of line 150 turns into 'Unexpected response format'
InnerHandled == {"ValueError", "KeyError"}

\* lines 127-152: status 200 (extract_title is left at its default, False)
ParseEnvelope(reply, content_type) ==
    IF reply.body = NotJson THEN Raise("ValueError", UnexpectedFormat)
    ELSE LET data == Envelope(reply.body, reply.text)
             has  == PyContains(data, "candidates", CandidatesKey)
         IN  IF has.exc # "" THEN Raise(has.exc, "")
             ELSE IF ~has.val THEN Raise("ValueError", UnexpectedFormat)
             ELSE LET cands == PyGetKey(Value(data), "candidates")
                  IN  IF cands.exc # ""
                      THEN (IF cands.exc \in InnerHandled
                            THEN Raise("ValueError", UnexpectedFormat) ELSE Raise(cands.exc, ""))
                      ELSE IF ~PyTruthy(cands.val) THEN Raise("ValueError", UnexpectedFormat)
                      ELSE LET text == PyGetKey(PyGetFirst(PyGetKey(PyGetKey(PyGetFirst(cands),
                                                    "content"), "parts")), "text")
                           IN  IF text.exc \in InnerHandled
                               THEN Raise("ValueError", UnexpectedFormat)
                               ELSE IF text.exc # "" THEN Raise(text.exc, "")
                               ELSE Return(ApplyContentType(text.val.d, content_type))

wait_time_Constant(attempt) == 1

\* line 155
wait_time(attempt) == 2 ^ attempt

IsFinalAttempt_Never(attempt) == FALSE

\* line 170
IsFinalAttempt(attempt) == attempt = retries - 1

RetriedStatus_All(status_code) == TRUE

\* line 154
RetriedStatus(status_code) == status_code \in {503, 429}

\* lines 118-173: one iteration of the loop, on the reply the request gets
Attempt(reply, attempt, content_type) ==
    IF reply.status = 0
    THEN \* requests.post raised a RequestException
         IF IsFinalAttempt(attempt) THEN Raise("ValueError", MaxRetriesExceeded)
         ELSE Retry(2 ^ attempt)
    ELSE IF reply.status = 200 THEN ParseEnvelope(reply, content_type)
    ELSE IF RetriedStatus(reply.status) THEN Retry(wait_time(attempt))
    ELSE [Raise("ValueError", StatusFailed) EXCEPT !.status = reply.status, !.body = reply.body]

\* lines 115-175: the whole call, on the replies its requests get in turn; the result
\* is the outcome with the sleeps and the number of requests made
RECURSIVE RunAttempts(_, _, _, _)
RunAttempts(script, attempt, content_type, sleeps) ==
    IF attempt >= retries
    THEN [outcome |-> Raise("ValueError", AfterMultipleRetries), sleeps |-> sleeps, requests |-> attempt]
    ELSE LET a == Attempt(script[attempt + 1], attempt, content_type)
         IN  IF a.kind = "retry"
             THEN RunAttempts(script, attempt + 1, content_type, Append(sleeps, a.sleep))
             ELSE [outcome |-> a, sleeps |-> sleeps, requests |-> attempt + 1]

interact_with_gemini(script, content_type) == RunAttempts(script, 0, content_type, <<>>)

(***************************************************************************)
(* rewrite_properties.py: select_best_title                                *)
(***************************************************************************)
UpperLetters ==
    <<"A", "B", "C", "D", "E", "F", "G", "H", "I", "J", "K", "L", "M",
      "N", "O", "P", "Q", "R", "S", "T", "U", "V", "W", "X", "Y", "Z">>
LowerLetters ==
    <<"a", "b", "c", "d", "e", "f", "g", "h", "i", "j", "k", "l", "m",
      "n", "o", "p", "q", "r", "s", "t", "u", "v", "w", "x", "y", "z">>

\* str.lower()
LowerChar(c) ==
    IF \E i \in 1..26 : UpperLetters[i] = c
    THEN LowerLetters[CHOOSE i \in 1..26 : UpperLetters[i] = c]
    ELSE c

Lower(s) == [i \in 1..Len(s) |-> LowerChar(s[i])]

\* the characters \w matches
WordChars ==
    {UpperLetters[i] : i \in 1..26} \cup {LowerLetters[i] : i \in 1..26} \cup Digits \cup {"_"}

\* the end of the run of word characters of s that starts at index i
WordRunEnd(s, i) ==
    CHOOSE e \in i..Len(s) :
        /\ (e = Len(s) \/ s[e + 1] \notin WordChars)
        /\ \A k \in i..e : s[k] \in WordChars

\* set(re.findall(r'\w+', s)): the maximal runs of word characters
WordSet(s) ==
    {SubSeq(s, i, WordRunEnd(s, i)) : i \in
        {i \in 1..Len(s) : s[i] \in WordChars /\ (i = 1 \/ s[i - 1] \notin WordChars)}}

\* r'\* ([^\n]+)' matches at index i of s
BulletAt(s, i) ==
    /\ i + 2 <= Len(s)
    /\ s[i] = "*" /\ s[i + 1] = " " /\ s[i + 2] # NL

\* the end of the line of s that holds index i
LineEnd(s, i) ==
    CHOOSE e \in i..Len(s) :
        /\ \A k \in i..e : s[k] # NL
        /\ (e = Len(s) \/ s[e + 1] = NL)

\* re.findall(r'\* ([^\n]+)', s), scanning from index `from`
RECURSIVE BulletMatches(_, _)
BulletMatches(s, from) ==
    IF \E i \in from..Len(s) : BulletAt(s, i)
    THEN LET i == CHOOSE i \in from..Len(s) :
                     BulletAt(s, i) /\ \A j \in from..(i - 1) : ~BulletAt(s, j)
             e == LineEnd(s, i + 2)
         IN  <<SubSeq(s, i + 2, e)>> \o BulletMatches(s, e + 1)
    ELSE <<>>

\* the span s[i .. j + 1] matches r'\*\*(.*?)\*\*' with the group s[i + 2 .. j - 1]
SpanCloses(s, i, j) ==
    /\ j >= i + 2
    /\ OccursAt(s, <<"*", "*">>, j)
    /\ \A k \in (i + 2)..(j - 1) : s[k] # NL

SpanAt(s, i) ==
    /\ OccursAt(s, <<"*", "*">>, i)
    /\ \E j \in (i + 2)..Len(s) : SpanCloses(s, i, j)

\* re.findall(r'\*\*(.*?)\*\*', s), scanning from index `from`
RECURSIVE AsteriskMatches(_, _)
AsteriskMatches(s, from) ==
    IF \E i \in from..Len(s) : SpanAt(s, i)
    THEN LET i == CHOOSE i \in from..Len(s) :
                     SpanAt(s, i) /\ \A k \in from..(i - 1) : ~SpanAt(s, k)
             j == CHOOSE j \in (i + 2)..Len(s) :
                     SpanCloses(s, i, j) /\ \A k \in (i + 2)..(j - 1) : ~SpanCloses(s, i, k)
         IN  <<SubSeq(s, i + 2, j - 1)>> \o AsteriskMatches(s, j + 2)
    ELSE <<>>

FillerPrefixes == {<<"H", "e", "r", "e">>, <<"T", "h", "e", " ", "b", "e", "s", "t">>, <<"#">>}

GenericPrefixes ==
    {<<"w", "e", "l", "c", "o", "m", "e", " ", "t", "o">>, <<"t", "h", "e">>, <<"a", " ">>}

Range(l) == {l[i] : i \in 1..Len(l)}

\* lines 36-54: the set of suggested titles
SuggestedTitles(title_response) ==
    LET structured == BulletMatches(title_response, 1) \o AsteriskMatches(title_response, 1)
        lines      == Split(title_response, NL)
        titles     == IF structured # <<>> THEN Range(structured)
                      ELSE {Strip(lines[i]) : i \in
                              {i \in 1..Len(lines) :
                                  /\ Strip(lines[i]) # <<>>
                                  /\ \A p \in FillerPrefixes : ~StartsWith(lines[i], p)}}
    IN  {Strip(t) : t \in {t \in titles : Strip(t) # <<>>}}

\* lines 64-80: the score of one suggested title
TitleScore(title, original_words) ==
    (IF 20 <= Len(title) /\ Len(title) <= 50 THEN 2 ELSE IF Len(title) < 70 THEN 1 ELSE 0)
        + Cardinality(original_words \cap WordSet(Lower(title)))
        - (IF \E p \in GenericPrefixes : StartsWith(Lower(title), p) THEN 1 ELSE 0)

\* title[:100], line 86 and line 57
FitTitle_Whole(title) == title

FitTitle(title) == PySlice(title, 100)

\* lines 27-86: the titles select_best_title can return; the order of list(set(...))
\* decides among titles of the same score and length
select_best_title(title_response, original_title) ==
    LET titles == SuggestedTitles(title_response)
    IN  IF titles = {} THEN {FitTitle(original_title)}
        ELSE LET original_words == WordSet(Lower(original_title))
                 scored == {<<TitleScore(t, original_words), t>> : t \in titles}
                 \* the sort key of line 85: (-score, len(title))
                 Before(a, b) == a[1] > b[1] \/ (a[1] = b[1] /\ Len(a[2]) <= Len(b[2]))
             IN  {FitTitle(a[2]) : a \in {a \in scored : \A b \in scored : Before(a, b)}}

(***************************************************************************)
(* rewrite_properties.py: Command.handle and the tables it works on        *)
(***************************************************************************)
None == <<"None">>

\* the rows of the raw `properties` table (title is VARCHAR(255))
PropertiesTable ==
    << [hotel_id |-> 1, title |-> <<"S", "e", "a", " ", "V", "i", "e", "w", " ", "H", "o", "t", "e", "l">>,
        location |-> "Test Location", latitude |-> 0, longitude |-> 0, price |-> 100],
       [hotel_id |-> 2, title |-> Fill(<<"G", "r", "a", "n", "d", " ", "I", "n", "n", " ">>, 120),
        location |-> "Other Location", latitude |-> 1, longitude |-> 1, price |-> 250] >>

EmptyDb == [listings |-> <<>>, summaries |-> <<>>, ratings |-> <<>>]

\* LIMIT %s OFFSET %s, lines 95-101
FetchProperties(limit, offset) ==
    SubSeq(PropertiesTable, offset + 1, Min(offset + limit, Len(PropertiesTable)))

\* Property.objects.get_or_create(hotel_id=..., defaults={...}), lines 114-123
get_or_create(rows, prop) ==
    IF prop.hotel_id \in DOMAIN rows.listings THEN rows
    ELSE [rows EXCEPT !.listings = @ @@ (prop.hotel_id :>
            [title |-> prop.title, description |-> None, location |-> prop.location,
             latitude |-> prop.latitude, longitude |-> prop.longitude, price |-> prop.price])]

\* property_obj.save(), lines 145-147
SaveProperty(rows, hotel_id, title, description) ==
    [rows EXCEPT !.listings[hotel_id].title = title,
                 !.listings[hotel_id].description = description]

\* Summary.objects.create(...), lines 160-163
CreateSummaryRow(rows, hotel_id, summary) ==
    [rows EXCEPT !.summaries = Append(@, [property |-> hotel_id, summary |-> summary])]

\* PropertyRating.objects.create(...), lines 178-182
CreateRatingRow(rows, hotel_id, rating, review) ==
    [rows EXCEPT !.ratings = Append(@, [property |-> hotel_id, rating |-> rating, review |-> review])]

AtomicExit_AutoCommit(committed, working, ok) == working

\* leaving `with transaction.atomic()`, line 112: commit, or roll back on an exception
AtomicExit(committed, working, ok) == IF ok THEN working ELSE committed

\* the prompts, as the template and the values formatted into it
TitlePrompt(prop) ==
    [template |-> "Rewrite this title: {title}", args |-> [title |-> prop.title]]

DescriptionPrompt_OriginalTitle(prop, rewritten_title) ==
    [template |-> "Generate a detailed description for the following property: ...",
     args |-> [title |-> prop.title, location |-> prop.location,
               latitude |-> prop.latitude, longitude |-> prop.longitude, price |-> prop.price]]

\* lines 134-138
DescriptionPrompt(prop, rewritten_title) ==
    [template |-> "Generate a detailed description for the following property: ...",
     args |-> [title |-> rewritten_title, location |-> prop.location,
               latitude |-> prop.latitude, longitude |-> prop.longitude, price |-> prop.price]]

\* lines 150-154
SummaryPrompt(prop, rewritten_title, rewritten_description) ==
    [template |-> "Summarize the following property information: ...",
     args |-> [title |-> rewritten_title, description |-> rewritten_description,
               location |-> prop.location, latitude |-> prop.latitude,
               longitude |-> prop.longitude, price |-> prop.price]]

\* lines 166-170
ReviewPrompt(prop, rewritten_title, rewritten_description) ==
    [template |-> "Generate a rating (0-5) and review for this property. ...",
     args |-> [title |-> rewritten_title, description |-> rewritten_description,
               location |-> prop.location, price |-> prop.price]]

CallEvent(content_type, prompt) == [op |-> "interact_with_gemini", content_type |-> content_type, prompt |-> prompt]
DbEvent(op) == [op |-> op, content_type |-> "", prompt |-> [template |-> "", args |-> <<>>]]

InnerExcept_CatchesNothing(result) == FALSE

\* lines 183-184: `except ValueError` around the parse and the insert
InnerExcept(result) == ~result.ok

NoLocals ==
    [rewritten_title |-> None, rewritten_description |-> None, summary_text |-> None,
     review_response |-> None, rating |-> "none", failed_at |-> ""]

NoGhost == [before |-> EmptyDb, entered |-> 0, committed |-> 0, iterations |-> 0]

(***************************************************************************)
(* Inputs of the pure-function specifications                              *)
(***************************************************************************)
MaxTextLen == 5
MaxBound == 5

RECURSIVE StringsUpTo(_, _)
StringsUpTo(alphabet, n) ==
    IF n = 0 THEN {<<>>}
    ELSE LET shorter == StringsUpTo(alphabet, n - 1)
         IN  shorter \cup {Append(s, c) : s \in {t \in shorter : Len(t) = n - 1}, c \in alphabet}

TruncAlphabet == {"a", " ", "."}

\* the replies of the endpoint: status 0 stands for a request that raised
NetworkFailure == [status |-> 0, body |-> "", text |-> <<>>]

ClientTexts ==
    {<<"o", "k", ".">>,
     Fill(<<"w", "o", "r", "d", " ">>, MAX_SUMMARY_LENGTH + 1),
     Fill(<<"a", " ", "b", ".", " ", "c">>, MAX_DESCRIPTION_LENGTH + 1)}

Replies ==
    {NetworkFailure}
        \cup [status : {429, 503, 500, 404, 201}, body : {"busy", "gone"}, text : {<<>>}]
        \cup [status : {200}, body : {"valid"}, text : ClientTexts]
        \cup [status : {200}, body : (JsonBodies \ {"valid"}) \cup {NotJson}, text : {<<"x">>}]

IdleClient ==
    [pc |-> "idle", content_type |-> "None", attempt |-> 0, requests |-> 0,
     sleeps |-> <<>>, history |-> <<>>, last |-> NetworkFailure, outcome |-> NoOutcome]

NoCall ==
    [text |-> <<>>, max_length |-> 0, add_ellipsis |-> FALSE, called |-> FALSE, result |-> <<>>,
     recalled |-> FALSE, again |-> <<>>]

NoParse == [text |-> <<>>, called |-> FALSE, result |-> ParseError("", NoRating)]

NoSelect == [title_response |-> <<>>, original_title |-> <<>>, called |-> FALSE, result |-> <<>>]

IdleBatch ==
    /\ db = EmptyDb
    /\ txn = EmptyDb
    /\ pc = "idle"
    /\ properties = <<>>
    /\ idx = 0
    /\ processed_count = 0
    /\ locals = NoLocals
    /\ events = <<>>
    /\ ghost = NoGhost

(***************************************************************************)
(* SpecTruncate: one call of truncate_text on every small input            *)
(***************************************************************************)
InitTruncate ==
    /\ trunc \in [text : StringsUpTo(TruncAlphabet, MaxTextLen),
                  max_length : 0..MaxBound,
                  add_ellipsis : BOOLEAN,
                  called : {FALSE},
                  result : {<<>>},
                  recalled : {FALSE},
                  again : {<<>>}]
    /\ parse = NoParse
    /\ client = IdleClient
    /\ IdleBatch
    /\ select = NoSelect

TruncateCall ==
    /\ ~trunc.called
    /\ trunc' = [trunc EXCEPT !.called = TRUE,
                              !.result = truncate_text(trunc.text, trunc.max_length,
                                                       trunc.add_ellipsis)]
    /\ UNCHANGED <<parse, client, select, batch>>

\* the returned text handed to truncate_text once more, with the same arguments
TruncateAgain ==
    /\ trunc.called
    /\ ~trunc.recalled
    /\ trunc' = [trunc EXCEPT !.recalled = TRUE,
                              !.again = truncate_text(trunc.result, trunc.max_length,
                                                      trunc.add_ellipsis)]
    /\ UNCHANGED <<parse, client, select, batch>>

NextTruncate ==
    \/ TruncateCall
    \/ TruncateAgain

SpecTruncate == InitTruncate /\ [][NextTruncate]_vars

(***************************************************************************)
(* SpecParse: one call of parse_rating_review on every text made of a few  *)
(* fragments                                                               *)
(***************************************************************************)
MaxFragments == 4

ParseFragments ==
    {RatingLabel, ReviewLabel, <<" ">>, <<NL>>, <<"4">>, <<"5">>, <<"6">>, <<".">>, <<"x">>}

RECURSIVE Compose(_, _)
Compose(fragments, n) ==
    IF n = 0 THEN {<<>>}
    ELSE LET shorter == Compose(fragments, n - 1)
         IN  shorter \cup {s \o f : s \in shorter, f \in fragments}

InitParse ==
    /\ parse \in [text : Compose(ParseFragments, MaxFragments),
                  called : {FALSE},
                  result : {NoParse.result}]
    /\ trunc = NoCall
    /\ client = IdleClient
    /\ IdleBatch
    /\ select = NoSelect

ParseCall ==
    /\ ~parse.called
    /\ parse' = [parse EXCEPT !.called = TRUE, !.result = parse_rating_review(parse.text)]
    /\ UNCHANGED <<trunc, client, select, batch>>

NextParse == ParseCall

SpecParse == InitParse /\ [][NextParse]_vars

(***************************************************************************)
(* Spec: runs of the rewrite_properties command.  Each call of             *)
(* interact_with_gemini is one step, on one of the ways of Scripts the     *)
(* endpoint can answer its requests.                                       *)
(***************************************************************************)
MaxIterations == 2

Ok(text) == [status |-> 200, body |-> "valid", text |-> text]
Busy == [status |-> 503, body |-> "busy", text |-> <<>>]

BulletedTitles ==
    <<"*", " ", "S", "e", "a", " ", "V", "i", "e", "w", " ", "R", "e", "t", "r", "e", "a",
          "t", NL, "*", " ", "T", "h", "e", " ", "H", "o", "t", "e", "l">>
OneLongLine == Fill(<<"L", "u", "x", "u", "r", "y", " ", "s", "t", "a", "y", " ">>, 120)
ShortDescription ==
    <<"N", "i", "c", "e", " ", "p", "l", "a", "c", "e", ".">>
LongDescription ==
    Fill(<<"L", "o", "v", "e", "l", "y", " ", "r", "o", "o", "m", "s", ".", " ">>, MAX_DESCRIPTION_LENGTH + 30)
LongSummary == Fill(<<"w", "o", "r", "d", " ">>, MAX_SUMMARY_LENGTH + 1)
GoodReview ==
    <<"R", "a", "t", "i", "n", "g", ":", " ", "4", ".", "5", NL, "R", "e", "v", "i", "e",
          "w", ":", " ", "G", "r", "e", "a", "t", ".">>
RatingOnly ==
    <<"R", "a", "t", "i", "n", "g", ":", " ", "5">>
RatingTooHigh ==
    <<"R", "a", "t", "i", "n", "g", ":", " ", "6", NL, "R", "e", "v", "i", "e", "w", ":",
          " ", "x">>
LongReview ==
    <<"R", "a", "t", "i", "n", "g", ":", " ", "3", NL, "R", "e", "v", "i", "e", "w", ":",
          " ">>
        \o Fill(<<"f", "i", "n", "e", " ">>, MAX_REVIEW_LENGTH + 20)

\* the texts the model answers a request of each content type with, in this model
Responses(content_type) ==
    CASE content_type = "title"       -> {BulletedTitles, OneLongLine}
      [] content_type = "description" -> {ShortDescription, LongDescription}
      [] content_type = "summary"     -> {LongSummary}
      [] content_type = "review"      -> {GoodReview, RatingOnly, RatingTooHigh, LongReview}

FailingScripts ==
    {<<[status |-> 500, body |-> "gone", text |-> <<>>]>>,
     <<[status |-> 200, body |-> "empty_parts", text |-> <<>>]>>,
     <<Busy, Busy, Busy, Busy, Busy>>,
     <<NetworkFailure, NetworkFailure, NetworkFailure, NetworkFailure, NetworkFailure>>}

Scripts(content_type) ==
    {<<Ok(t)>> : t \in Responses(content_type)}
        \cup {<<Busy, NetworkFailure, Ok(t)>> : t \in Responses(content_type)}
        \cup FailingScripts

Init ==
    /\ IdleBatch
    /\ select = NoSelect
    /\ trunc = NoCall
    /\ parse = NoParse
    /\ client = IdleClient

Others == <<trunc, parse, client, select>>

prop == properties[idx]

\* the loop of line 108 goes on to the next row, or ends
NextRow ==
    /\ idx' = idx + 1
    /\ pc' = IF idx < Len(properties) THEN "get_or_create" ELSE "done"

RaiseAt_Continue(step) ==
    /\ pc' = "commit"
    /\ locals' = [locals EXCEPT !.failed_at = step]

\* an exception leaves the transaction.atomic() block for the handler of line 189
RaiseAt(step) ==
    /\ pc' = "except"
    /\ locals' = [locals EXCEPT !.failed_at = step]

\* lines 88-107: the command starts and fetches its slice of the table
Handle ==
    /\ pc \in {"idle", "done"}
    /\ \E limit \in 0..Len(PropertiesTable), offset \in 0..Len(PropertiesTable) :
          LET rows == FetchProperties(limit, offset)
          IN  /\ ghost.iterations + Len(rows) <= MaxIterations
              /\ properties' = rows
              /\ idx' = IF rows = <<>> THEN 0 ELSE 1
              /\ pc' = IF rows = <<>> THEN "done" ELSE "get_or_create"
    /\ processed_count' = 0
    /\ ghost' = [ghost EXCEPT !.entered = 0, !.committed = 0]
    /\ locals' = NoLocals
    /\ events' = <<>>
    /\ UNCHANGED <<db, txn, Others>>

\* lines 109-123: the block is entered and the Property row is looked up or created
GetOrCreate ==
    /\ pc = "get_or_create"
    /\ ghost' = [ghost EXCEPT !.before = db, !.entered = @ + 1, !.iterations = @ + 1]
    /\ events' = <<DbEvent("Property.objects.get_or_create")>>
    /\ \E database_error \in BOOLEAN :
          IF database_error
          THEN /\ pc' = "except"
               /\ locals' = [NoLocals EXCEPT !.failed_at = "get_or_create"]
               /\ txn' = txn
          ELSE /\ pc' = "title"
               /\ locals' = NoLocals
               /\ txn' = get_or_create(txn, prop)
    /\ UNCHANGED <<db, properties, idx, processed_count, Others>>

\* lines 126-131
TitleCall ==
    /\ pc = "title"
    /\ \E script \in Scripts("title") :
          LET r == interact_with_gemini(script, "title").outcome
          IN  IF r.kind = "raise" THEN RaiseAt("title")
              ELSE /\ \E t \in select_best_title(r.text, prop.title) :
                         locals' = [locals EXCEPT !.rewritten_title = t]
                   /\ pc' = "description"
    /\ events' = Append(events, CallEvent("title", TitlePrompt(prop)))
    /\ UNCHANGED <<db, txn, properties, idx, processed_count, ghost, Others>>

\* lines 134-142
DescriptionCall ==
    /\ pc = "description"
    /\ \E script \in Scripts("description") :
          LET r == interact_with_gemini(script, "description").outcome
          IN  IF r.kind = "raise" THEN RaiseAt("description")
              ELSE /\ locals' = [locals EXCEPT !.rewritten_description = r.text]
                   /\ pc' = "save"
    /\ events' = Append(events,
                    CallEvent("description", DescriptionPrompt(prop, locals.rewritten_title)))
    /\ UNCHANGED <<db, txn, properties, idx, processed_count, ghost, Others>>

\* lines 145-147
Save ==
    /\ pc = "save"
    /\ events' = Append(events, DbEvent("property_obj.save"))
    /\ \E database_error \in BOOLEAN :
          IF database_error
          THEN RaiseAt("save") /\ txn' = txn
          ELSE /\ txn' = SaveProperty(txn, prop.hotel_id, locals.rewritten_title,
                                      locals.rewritten_description)
               /\ pc' = "summary"
               /\ locals' = locals
    /\ UNCHANGED <<db, properties, idx, processed_count, ghost, Others>>

\* lines 150-158
SummaryCall ==
    /\ pc = "summary"
    /\ \E script \in Scripts("summary") :
          LET r == interact_with_gemini(script, "summary").outcome
          IN  IF r.kind = "raise" THEN RaiseAt("summary")
              ELSE /\ locals' = [locals EXCEPT !.summary_text = r.text]
                   /\ pc' = "create_summary"
    /\ events' = Append(events,
                    CallEvent("summary", SummaryPrompt(prop, locals.rewritten_title,
                                                       locals.rewritten_description)))
    /\ UNCHANGED <<db, txn, properties, idx, processed_count, ghost, Others>>

\* lines 160-163
CreateSummary ==
    /\ pc = "create_summary"
    /\ events' = Append(events, DbEvent("Summary.objects.create"))
    /\ \E database_error \in BOOLEAN :
          IF database_error
          THEN RaiseAt("create_summary") /\ txn' = txn
          ELSE /\ txn' = CreateSummaryRow(txn, prop.hotel_id, locals.summary_text)
               /\ pc' = "review"
               /\ locals' = locals
    /\ UNCHANGED <<db, properties, idx, processed_count, ghost, Others>>

\* lines 166-174
ReviewCall ==
    /\ pc = "review"
    /\ \E script \in Scripts("review") :
          LET r == interact_with_gemini(script, "review").outcome
          IN  IF r.kind = "raise" THEN RaiseAt("review")
              ELSE /\ locals' = [locals EXCEPT !.review_response = r.text]
                   /\ pc' = "rate"
    /\ events' = Append(events,
                    CallEvent("review", ReviewPrompt(prop, locals.rewritten_title,
                                                     locals.rewritten_description)))
    /\ UNCHANGED <<db, txn, properties, idx, processed_count, ghost, Others>>

\* lines 176-184: the parse and the insert, inside `try ... except ValueError`
Rate ==
    /\ pc = "rate"
    /\ LET result == parse_rating_review(locals.review_response)
       IN  IF result.ok
           THEN /\ events' = Append(events, DbEvent("PropertyRating.objects.create"))
                /\ \E database_error \in BOOLEAN :
                      IF database_error
                      THEN RaiseAt("create_rating") /\ txn' = txn
                      ELSE /\ txn' = CreateRatingRow(txn, prop.hotel_id, result.rating,
                                                     result.review)
                           /\ locals' = [locals EXCEPT !.rating = "saved"]
                           /\ pc' = "commit"
           ELSE /\ events' = events
                /\ txn' = txn
                /\ IF InnerExcept(result)
                   THEN locals' = [locals EXCEPT !.rating = "skipped"] /\ pc' = "commit"
                   ELSE RaiseAt("parse")
    /\ UNCHANGED <<db, properties, idx, processed_count, ghost, Others>>

\* the transaction.atomic() block of line 112 is left without an exception
Commit ==
    /\ pc = "commit"
    /\ db' = AtomicExit(db, txn, TRUE)
    /\ txn' = db'
    /\ ghost' = [ghost EXCEPT !.committed = @ + 1]
    /\ pc' = "count"
    /\ UNCHANGED <<properties, idx, processed_count, locals, events, Others>>

\* lines 186-187
Count ==
    /\ pc = "count"
    /\ processed_count' = processed_count + 1
    /\ NextRow
    /\ UNCHANGED <<db, txn, properties, locals, events, ghost, Others>>

\* lines 189-191: the block is left by an exception, which the handler logs
Except ==
    /\ pc = "except"
    /\ db' = AtomicExit(db, txn, FALSE)
    /\ txn' = db'
    /\ NextRow
    /\ UNCHANGED <<properties, processed_count, locals, events, ghost, Others>>

Next ==
    \/ Handle
    \/ GetOrCreate
    \/ TitleCall
    \/ DescriptionCall
    \/ Save
    \/ SummaryCall
    \/ CreateSummary
    \/ ReviewCall
    \/ Rate
    \/ Commit
    \/ Count
    \/ Except

Spec == Init /\ [][Next]_vars

(***************************************************************************)
(* Properties of Command.handle                                            *)
(***************************************************************************)
StepsOneToFive == {"get_or_create", "title", "description", "save", "summary", "create_summary"}

AfterThisRow == IF idx < Len(properties) THEN "get_or_create" ELSE "done"

\* C5: if the upsert, the title request and selection, the description request, the
\* Listing save, the summary request or the SummaryRecord insert fails for a listing,
\* then after that listing the store is exactly as it was before it, the processed
\* count is not incremented and the next listing of the slice is attempted; the final
\* count is the number of listings whose unit of work committed.
C5_FailureDiscardsUnit ==
    /\ [](pc = "except" => db = ghost.before)
    /\ [][(pc = "except" /\ locals.failed_at \in StepsOneToFive) =>
            /\ db' = ghost.before
            /\ txn' = ghost.before
            /\ processed_count' = processed_count
            /\ idx' = idx + 1
            /\ pc' = AfterThisRow]_vars
    /\ []((pc = "done" /\ properties # <<>>) =>
            /\ ghost.entered = Len(properties)
            /\ processed_count = ghost.committed)

\* the first row failed at the SummaryRecord insert, after its Listing was created and
\* updated in the block; nothing of it is stored and the second row is next
C5_Witness ==
    /\ pc = "get_or_create" /\ idx = 2
    /\ locals.failed_at = "create_summary"
    /\ db = EmptyDb /\ txn = EmptyDb
    /\ processed_count = 0 /\ ghost.entered = 1

\* C6: if the four model calls of a listing succeed and the rating/review response does
\* not parse, the listing is still counted as processed: its title/description update
\* and its new SummaryRecord are committed, no RatingRecord is inserted for it, and the
\* batch goes on with the next listing.
C6_ParseFailureKeepsListing ==
    /\ [][(pc = "rate" /\ ~parse_rating_review(locals.review_response).ok) =>
            /\ pc' = "commit"
            /\ txn' = txn
            /\ locals'.rating = "skipped"]_vars
    /\ []((pc = "count" /\ locals.rating = "skipped") =>
            /\ db.listings[prop.hotel_id].title = locals.rewritten_title
            /\ db.listings[prop.hotel_id].description = locals.rewritten_description
            /\ db.summaries = Append(ghost.before.summaries,
                                     [property |-> prop.hotel_id, summary |-> locals.summary_text])
            /\ db.ratings = ghost.before.ratings)
    /\ [][pc = "count" =>
            /\ processed_count' = processed_count + 1
            /\ idx' = idx + 1
            /\ pc' = AfterThisRow]_vars

C6_Witness ==
    /\ pc = "get_or_create" /\ idx = 2
    /\ locals.rating = "skipped"
    /\ processed_count = 1
    /\ DOMAIN db.listings = {1}
    /\ Len(db.summaries) = 1 /\ db.ratings = <<>>

\* the four calls of the current row returned and the fourth response parsed
FourCallsParsed ==
    /\ locals.review_response # None
    /\ pc # "rate"
    /\ parse_rating_review(locals.review_response).ok

OpsOf(evs) == [i \in 1..Len(evs) |-> <<evs[i].op, evs[i].content_type>>]

OrderedCallsAndWrites ==
    OpsOf(events) =
        << <<"Property.objects.get_or_create", "">>,
           <<"interact_with_gemini", "title">>,
           <<"interact_with_gemini", "description">>,
           <<"property_obj.save", "">>,
           <<"interact_with_gemini", "summary">>,
           <<"Summary.objects.create", "">>,
           <<"interact_with_gemini", "review">>,
           <<"PropertyRating.objects.create", "">> >>

\* the description prompt carries the selected title, the summary prompt and the
\* rating/review prompt carry the selected title and the description
TitleAndDescriptionInPrompts ==
    /\ events[3].prompt.args.title = locals.rewritten_title
    /\ events[5].prompt.args.title = locals.rewritten_title
    /\ events[5].prompt.args.description = locals.rewritten_description
    /\ events[7].prompt.args.title = locals.rewritten_title
    /\ events[7].prompt.args.description = locals.rewritten_description

SummaryInReviewPrompt ==
    /\ "summary" \in DOMAIN events[7].prompt.args
    /\ events[7].prompt.args.summary = locals.summary_text

\* C7 as stated: for every listing whose four model calls succeed and whose
\* rating/review response parses, the orchestrator issues exactly four model calls in
\* the order title, description, summary, rating/review, each with the previous
\* outputs in its prompt, and performs exactly one Listing update, one SummaryRecord
\* insert and one RatingRecord insert, in that order.
C7_CallsCarryPreviousOutputs ==
    FourCallsParsed =>
        (OrderedCallsAndWrites /\ TitleAndDescriptionInPrompts /\ SummaryInReviewPrompt)

\* C7 as amended: the same order and counts; the description prompt carries the
\* selected title, the summary and rating/review prompts carry the selected title and
\* the description, and the rating/review prompt does not carry the summary.
C7_OrderedCallsAndWrites ==
    FourCallsParsed =>
        /\ OrderedCallsAndWrites
        /\ TitleAndDescriptionInPrompts
        /\ "summary" \notin DOMAIN events[7].prompt.args

C7_Witness ==
    /\ pc = "count"
    /\ locals.rating = "saved"
    /\ Len(events) = 8
    /\ locals.rewritten_title # prop.title
    /\ Len(db.ratings) = Len(ghost.before.ratings) + 1

\* C8: in every state of the store, whatever the runs and the responses, every stored
\* title is at most 100 characters, every description at most 200, every summary at
\* most 100, every review at most 100, and every rating is within [0, 5].
C8_StoredValuesWithinBounds ==
    /\ \A h \in DOMAIN db.listings :
          /\ Len(db.listings[h].title) <= MAX_TITLE_LENGTH
          /\ db.listings[h].description # None
          /\ Len(db.listings[h].description) <= MAX_DESCRIPTION_LENGTH
    /\ \A i \in 1..Len(db.summaries) : Len(db.summaries[i].summary) <= MAX_SUMMARY_LENGTH
    /\ \A i \in 1..Len(db.ratings) :
          /\ Len(db.ratings[i].review) <= MAX_REVIEW_LENGTH
          /\ 0 <= db.ratings[i].rating.num
          /\ db.ratings[i].rating.num <= 5 * Pow10(db.ratings[i].rating.scale)

\* a stored listing whose title, description, summary and review were all cut
C8_Witness ==
    /\ 2 \in DOMAIN db.listings
    /\ Len(db.listings[2].title) = MAX_TITLE_LENGTH
    /\ Len(db.listings[2].description) > MAX_DESCRIPTION_LENGTH - 3
    /\ \E i \in 1..Len(db.summaries) :
          db.summaries[i].property = 2 /\ Len(db.summaries[i].summary) > MAX_SUMMARY_LENGTH - 10
    /\ \E i \in 1..Len(db.ratings) :
          db.ratings[i].property = 2 /\ Len(db.ratings[i].review) > MAX_REVIEW_LENGTH - 30

\* C14: if the rating/review request of a listing itself fails, the listing's whole
\* unit of work is discarded: the title/description update and the SummaryRecord
\* written in that unit are rolled back, no RatingRecord is inserted and the listing is
\* not counted as processed. Only a failure to parse the text that request returned is
\* tolerated without aborting the listing.
C14_ReviewCallFailureDiscardsUnit ==
    /\ [][(pc = "review" /\ locals'.failed_at = "review") => pc' = "except"]_vars
    /\ []((pc = "except" /\ locals.failed_at = "review") =>
            /\ txn.listings[prop.hotel_id].title = locals.rewritten_title
            /\ txn.listings[prop.hotel_id].description = locals.rewritten_description
            /\ txn.summaries = Append(ghost.before.summaries,
                                      [property |-> prop.hotel_id, summary |-> locals.summary_text])
            /\ txn.ratings = ghost.before.ratings
            /\ db = ghost.before)
    /\ [][(pc = "except" /\ locals.failed_at = "review") =>
            /\ db' = ghost.before
            /\ txn' = ghost.before
            /\ processed_count' = processed_count
            /\ idx' = idx + 1
            /\ pc' = AfterThisRow]_vars
    /\ [](pc \in {"commit", "count"} =>
            /\ locals.failed_at = ""
            /\ locals.review_response # None
            /\ locals.rating = "saved" => parse_rating_review(locals.review_response).ok
            /\ locals.rating = "skipped" => ~parse_rating_review(locals.review_response).ok)

\* the rating/review request of the first row failed after its Listing was updated and
\* its SummaryRecord written in the block; nothing of the row is stored or counted
C14_Witness ==
    /\ pc = "get_or_create" /\ idx = 2
    /\ locals.failed_at = "review"
    /\ locals.summary_text # None
    /\ db = EmptyDb /\ txn = EmptyDb
    /\ processed_count = 0 /\ ghost.entered = 1 /\ ghost.committed = 0

(***************************************************************************)
(* Properties of truncate_text                                             *)
(***************************************************************************)
\* the whitespace-separated tokens of p, as the pairs <<first index, last index>>
TokenSpans(p) ==
    {sp \in (1..Len(p)) \X (1..Len(p)) :
        /\ sp[1] <= sp[2]
        /\ \A k \in sp[1]..sp[2] : p[k] \notin Whitespace
        /\ (sp[1] = 1 \/ p[sp[1] - 1] \in Whitespace)
        /\ (sp[2] = Len(p) \/ p[sp[2] + 1] \in Whitespace)}

\* the tokens of the spans, in the order of the text, joined by single spaces
RECURSIVE JoinSpans(_, _)
JoinSpans(p, spans) ==
    IF spans = {} THEN <<>>
    ELSE LET first == CHOOSE sp \in spans : \A o \in spans : sp[1] <= o[1]
             rest  == spans \ {first}
         IN  SubSeq(p, first[1], first[2])
                \o (IF rest = {} THEN <<>> ELSE <<" ">> \o JoinSpans(p, rest))

\* what the description of truncate says it returns, given the prefix it works on
DescribedResult(text, max_length, add_ellipsis, prefix) ==
    IF Len(text) <= max_length THEN text
    ELSE LET periods == {i \in 1..Len(prefix) : prefix[i] = "."}
             spans   == TokenSpans(prefix)
             cut     == IF periods # {}
                        THEN SubSeq(prefix, 1, CHOOSE i \in periods : \A j \in periods : j <= i)
                        ELSE JoinSpans(prefix, spans \ {sp \in spans : \A o \in spans : o[1] <= sp[1]})
         IN  cut \o (IF add_ellipsis THEN Ellipsis ELSE <<>>)

\* C10: truncate(text, maxLength, addEllipsis) returns text unchanged when it is no
\* longer than maxLength; otherwise it works on the prefix of text of length
\* maxLength - 3 (maxLength without the ellipsis) and returns that prefix cut just
\* after its last period, or else the prefix's tokens without the last one joined by
\* single spaces, followed by '...' when addEllipsis is set.
C10_TruncateAsDescribed ==
    trunc.called =>
        trunc.result =
            DescribedResult(trunc.text, trunc.max_length, trunc.add_ellipsis,
                SubSeq(trunc.text, 1,
                       IF trunc.add_ellipsis THEN trunc.max_length - 3 ELSE trunc.max_length))

\* The description is exact whenever the bound leaves room for the ellipsis.
TruncateAsDescribedWithRoom ==
    (trunc.called /\ (trunc.add_ellipsis => trunc.max_length >= 3)) =>
        trunc.result =
            DescribedResult(trunc.text, trunc.max_length, trunc.add_ellipsis,
                SubSeq(trunc.text, 1,
                       IF trunc.add_ellipsis THEN trunc.max_length - 3 ELSE trunc.max_length))

\* With a bound below 3 the code works on text[:maxLength - 3], a slice that counts
\* from the end of the text, and the result is longer than the bound.
TruncateNegativeSliceReached ==
    /\ trunc.called /\ trunc.add_ellipsis /\ trunc.max_length < 3
    /\ Len(trunc.text) > trunc.max_length
    /\ Len(trunc.result) > Len(Ellipsis)

\* C11: truncate is idempotent with the default addEllipsis = true: for every
\* string s and every bound N, truncate(truncate(s, N), N) = truncate(s, N).
C11_TruncateIdempotent ==
    (trunc.recalled /\ trunc.add_ellipsis) => trunc.again = trunc.result

\* A second truncation changes nothing whenever the bound leaves room for the
\* ellipsis: the first result is then no longer than the bound.
TruncateIdempotentWithRoom ==
    (trunc.recalled /\ trunc.add_ellipsis /\ trunc.max_length >= 3) =>
        /\ Len(trunc.result) <= trunc.max_length
        /\ trunc.again = trunc.result

\* A text that was really shortened is handed to truncate_text again.
TruncateShortenedTwice ==
    /\ trunc.recalled /\ trunc.add_ellipsis /\ trunc.max_length >= 3
    /\ Len(trunc.text) > trunc.max_length
    /\ Len(trunc.result) > Len(Ellipsis)
    /\ trunc.again = trunc.result

(***************************************************************************)
(* Properties of parse_rating_review                                       *)
(***************************************************************************)
\* the text has a 'Rating:' label followed, after optional whitespace, by a digit
HasRatingNumber(text) ==
    \E i \in 1..Len(text) : \E j \in (i + Len(RatingLabel))..Len(text) :
        /\ OccursAt(text, RatingLabel, i)
        /\ \A k \in (i + Len(RatingLabel))..(j - 1) : text[k] \in Whitespace
        /\ text[j] \in Digits

HasReviewLabel(text) == \E i \in 1..Len(text) : OccursAt(text, ReviewLabel, i)

FailureReasons == {NoRatingFound, NoReviewFound, OutOfRange}

\* C9: extractRatingReview fails with the 'no rating' reason whenever no 'Rating:'
\* label followed by a number is in the text (with or without a 'Review:' label), with
\* the 'no review' reason whenever a rating is found and no 'Review:' label exists
\* (whatever the rating), with the out-of-range reason whenever both are found and the
\* rating is outside [0, 5]; a failure carries exactly one of the three distinct
\* reasons, and the call succeeds exactly when none applies.
C9_RatingReviewFailureReasons ==
    parse.called =>
        LET r      == parse.result
            hasR   == HasRatingNumber(parse.text)
            hasV   == HasReviewLabel(parse.text)
            outOf  == RatingOutOfRange(RatingSearch(parse.text).rating)
        IN  /\ ~hasR => (~r.ok /\ r.error = NoRatingFound)
            /\ (hasR /\ ~hasV) => (~r.ok /\ r.error = NoReviewFound)
            /\ (hasR /\ hasV /\ outOf) => (~r.ok /\ r.error = OutOfRange)
            /\ r.ok <=> (hasR /\ hasV /\ ~outOf)
            /\ ~r.ok => r.error \in FailureReasons
            /\ Cardinality(FailureReasons) = 3

\* a rating above 5 without a 'Review:' label is reported as 'no review'
C9_Witness ==
    /\ parse.called
    /\ HasRatingNumber(parse.text) /\ ~HasReviewLabel(parse.text)
    /\ RatingOutOfRange(RatingSearch(parse.text).rating)
    /\ parse.result.error = NoReviewFound

(***************************************************************************)
(* SpecClient: one call of interact_with_gemini against an endpoint that   *)
(* answers each request in any of the ways of Replies                      *)
(***************************************************************************)
InitClient ==
    /\ client = IdleClient
    /\ IdleBatch
    /\ select = NoSelect
    /\ trunc = NoCall
    /\ parse = NoParse

\* interact_with_gemini(prompt, content_type=...) is entered
ClientCall ==
    /\ client.pc = "idle"
    /\ \E ct \in ContentTypes :
          client' = [IdleClient EXCEPT !.pc = "loop", !.content_type = ct]
    /\ UNCHANGED <<trunc, parse, select, batch>>

\* lines 117-173: one iteration of `for attempt in range(retries)`
ClientAttempt ==
    /\ client.pc = "loop"
    /\ client.attempt < retries
    /\ \E reply \in Replies :
          LET a == Attempt(reply, client.attempt, client.content_type)
          IN  client' = [client EXCEPT
                            !.requests = @ + 1,
                            !.history = Append(@, reply.status),
                            !.last = reply,
                            !.sleeps = IF a.kind = "retry" THEN Append(@, a.sleep) ELSE @,
                            !.attempt = IF a.kind = "retry" THEN @ + 1 ELSE @,
                            !.pc = IF a.kind = "retry" THEN "loop" ELSE "done",
                            !.outcome = IF a.kind = "retry" THEN NoOutcome ELSE a]
    /\ UNCHANGED <<trunc, parse, select, batch>>

\* line 175: the loop ran out
ClientExhausted ==
    /\ client.pc = "loop"
    /\ client.attempt >= retries
    /\ client' = [client EXCEPT !.pc = "done",
                                !.outcome = Raise("ValueError", AfterMultipleRetries)]
    /\ UNCHANGED <<trunc, parse, select, batch>>

NextClient == ClientCall \/ ClientAttempt \/ ClientExhausted

SpecClient == InitClient /\ [][NextClient]_vars

(***************************************************************************)
(* Properties of interact_with_gemini                                      *)
(***************************************************************************)
Backoff(n) == [i \in 1..n |-> 2 ^ (i - 1)]

OnlyBusy(history) == \A i \in 1..Len(history) : history[i] \in {503, 429}

\* C1: when every attempt receives HTTP 503 or 429, the client makes exactly 5
\* requests, sleeps 2^attempt seconds after each of them (1, 2, 4, 8, 16 in this
\* order), then fails with the exhausted-retries error, and never returns a text.
C1_BusyEndpointExhaustsRetries ==
    OnlyBusy(client.history) =>
        /\ client.requests = Len(client.history)
        /\ client.requests <= 5
        /\ client.sleeps = Backoff(client.requests)
        /\ client.outcome.kind # "return"
        /\ client.pc = "done" =>
              /\ client.requests = 5
              /\ client.sleeps = <<1, 2, 4, 8, 16>>
              /\ client.outcome.kind = "raise"
              /\ client.outcome.msg = AfterMultipleRetries
        /\ (client.pc = "loop" /\ client.requests = 5) => ENABLED ClientExhausted

C1_Witness ==
    /\ client.pc = "done"
    /\ client.history = <<503, 429, 503, 503, 429>>
    /\ client.outcome.msg = AfterMultipleRetries

\* C2: whatever the replies, a call sends at most 5 requests; a network failure at
\* attempt k = 0..3 is followed by a sleep of 2^k seconds and a retry, the sleep a
\* 429/503 at attempt k gets; a network failure at the fifth attempt makes the call
\* fail with the 'max retries exceeded' error.
C2_NetworkFailureBackoff ==
    /\ client.requests <= 5
    /\ \A i \in 1..Len(client.history) :
          /\ (client.history[i] = 0 /\ i <= 4) =>
                /\ Len(client.sleeps) >= i
                /\ client.sleeps[i] = 2 ^ (i - 1)
                /\ (i = Len(client.history)) =>
                      (client.pc = "loop" /\ client.attempt = i /\ client.outcome.kind = "none")
          /\ (client.history[i] \in {503, 429}) =>
                (Len(client.sleeps) >= i /\ client.sleeps[i] = 2 ^ (i - 1))
          /\ (client.history[i] = 0 /\ i = 5) =>
                /\ client.pc = "done"
                /\ client.outcome.kind = "raise"
                /\ client.outcome.msg = MaxRetriesExceeded
                /\ Len(client.sleeps) = 4

C2_Witness ==
    /\ client.pc = "done"
    /\ client.history = <<0, 503, 0, 0, 0>>
    /\ client.sleeps = <<1, 2, 4, 8>>
    /\ client.outcome.msg = MaxRetriesExceeded

\* the path candidates[0].content.parts[0].text of a body leads to a text
WellFormed(reply) ==
    /\ reply.body \in JsonBodies
    /\ LET data == Envelope(reply.body, reply.text)
       IN  /\ data.t = "dict" /\ "candidates" \in DOMAIN data.d
           /\ LET c == data.d["candidates"]
              IN  /\ c.t = "list" /\ Len(c.d) > 0
                  /\ c.d[1].t = "dict" /\ "content" \in DOMAIN c.d[1].d
                  /\ LET content == c.d[1].d["content"]
                     IN  /\ content.t = "dict" /\ "parts" \in DOMAIN content.d
                         /\ LET parts == content.d["parts"]
                            IN  /\ parts.t = "list" /\ Len(parts.d) > 0
                                /\ parts.d[1].t = "dict" /\ "text" \in DOMAIN parts.d[1].d
                                /\ parts.d[1].d["text"].t = "str"

AnsweredMalformed ==
    /\ client.history # <<>>
    /\ client.last.status = 200
    /\ ~WellFormed(client.last)

\* C3: whenever an attempt receives HTTP 200 and the envelope path is absent or
\* malformed in any way, the call fails at that attempt with the 'unexpected response
\* format' error and sends no further request.
C3_MalformedEnvelopeFails ==
    AnsweredMalformed =>
        /\ client.pc = "done"
        /\ client.outcome.kind = "raise"
        /\ client.outcome.exc = "ValueError"
        /\ client.outcome.msg = UnexpectedFormat

\* The part of C3 the code keeps: a malformed envelope ends the call at that attempt.
MalformedEnvelopeEndsCall ==
    AnsweredMalformed => (client.pc = "done" /\ client.outcome.kind = "raise")

\* C4: whenever an attempt receives a status other than 200, 429 and 503, the call
\* fails at that attempt with an error carrying the status code and the body, with no
\* sleep and no further request, whatever the attempt number.
C4_OtherStatusFailsAtOnce ==
    (client.history # <<>> /\ client.last.status \notin {0, 200, 429, 503}) =>
        /\ client.pc = "done"
        /\ client.outcome.kind = "raise"
        /\ client.outcome.msg = StatusFailed
        /\ client.outcome.status = client.last.status
        /\ client.outcome.body = client.last.body
        /\ client.requests = Len(client.history)
        /\ Len(client.sleeps) = client.requests - 1
        /\ client.attempt = client.requests - 1

C4_Witness ==
    /\ client.pc = "done"
    /\ client.history = <<503, 0, 500>>
    /\ client.outcome.status = 500 /\ client.outcome.body = "gone"
    /\ client.sleeps = <<1, 2>>

(***************************************************************************)
(* SpecSelect: one call of select_best_title on responses made of a few    *)
(* lines                                                                   *)
(***************************************************************************)
MaxLines == 2

BulletResort ==
    <<"*", " ", "S", "e", "a", " ", "V", "i", "e", "w", " ", "H", "o", "t", "e", "l", " ",
      "a", "n", "d", " ", "S", "p", "a", " ", "R", "e", "s", "o", "r", "t", NL>>
BulletTheBay ==
    <<"*", " ", "T", "h", "e", " ", "S", "e", "a", " ", "V", "i", "e", "w", " ", "H", "o",
      "t", "e", "l", " ", "b", "y", " ", "t", "h", "e", " ", "B", "a", "y", NL>>
BulletAHotel ==
    <<"*", " ", "A", " ", "H", "o", "t", "e", "l", NL>>
BoldWelcome ==
    <<"*", "*", "W", "e", "l", "c", "o", "m", "e", " ", "t", "o", " ", "S", "e", "a", " ",
      "V", "i", "e", "w", "*", "*", NL>>
BoldResort ==
    <<"*", "*", "S", "e", "a", " ", "V", "i", "e", "w", " ", "H", "o", "t", "e", "l", " ",
      "a", "n", "d", " ", "S", "p", "a", " ", "R", "e", "s", "o", "r", "t", "*", "*", NL>>
HereLine ==
    <<"H", "e", "r", "e", " ", "a", "r", "e", " ", "s", "o", "m", "e", " ", "t", "i", "t",
      "l", "e", "s", ":", NL>>
HeadingLine ==
    <<"#", " ", "T", "i", "t", "l", "e", "s", NL>>
CosyLine ==
    <<"C", "o", "s", "y", " ", "S", "e", "a", " ", "V", "i", "e", "w", " ", "R", "o", "o",
      "m", "s", NL>>
CalmLine ==
    <<"C", "a", "l", "m", " ", "S", "e", "a", " ", "V", "i", "e", "w", " ", "R", "o", "o",
      "m", "s", NL>>
IndentedHereLine ==
    <<" ", "H", "e", "r", "e", " ", "i", "s", " ", "t", "h", "e", " ", "S", "e", "a", " ",
      "V", "i", "e", "w", NL>>
BlankLine ==
    <<NL>>
LongLine == Append(Fill(<<"S", "e", "a", " ", "V", "i", "e", "w", " ", "H", "o", "t", "e", "l", " ">>, 110), NL)

\* the lines a title response is made of, each with its line end
ResponseLines ==
    {BulletResort, BulletTheBay, BulletAHotel, BoldWelcome, BoldResort, HereLine,
     HeadingLine, CosyLine, CalmLine, IndentedHereLine, BlankLine, LongLine}

OriginalTitles == {PropertiesTable[i].title : i \in 1..Len(PropertiesTable)}

InitSelect ==
    /\ select \in [title_response : Compose(ResponseLines, MaxLines),
                   original_title : OriginalTitles,
                   called : {FALSE},
                   result : {<<>>}]
    /\ trunc = NoCall
    /\ parse = NoParse
    /\ client = IdleClient
    /\ db = EmptyDb
    /\ txn = EmptyDb
    /\ pc = "idle"
    /\ properties = <<>>
    /\ idx = 0
    /\ processed_count = 0
    /\ locals = NoLocals
    /\ events = <<>>
    /\ ghost = NoGhost

\* the order of list(set(...)) decides among the titles select_best_title can return
SelectCall ==
    /\ ~select.called
    /\ \E best_title \in select_best_title(select.title_response, select.original_title) :
          select' = [select EXCEPT !.called = TRUE, !.result = best_title]
    /\ UNCHANGED <<trunc, parse, client, batch>>

NextSelect == SelectCall

SpecSelect == InitSelect /\ [][NextSelect]_vars

(***************************************************************************)
(* Properties of select_best_title                                         *)
(***************************************************************************)
\* the first 100 characters of a text
HardCut(t) == SubSeq(t, 1, IF Len(t) < 100 THEN Len(t) ELSE 100)

\* the distinct word tokens of a text in lower case: its maximal runs of letters,
\* digits and underscores
LowerTokens(t) ==
    LET s == Lower(t)
    IN  {SubSeq(s, sp[1], sp[2]) : sp \in
            {sp \in (1..Len(s)) \X (1..Len(s)) :
                /\ sp[1] <= sp[2]
                /\ \A k \in sp[1]..sp[2] : s[k] \in WordChars
                /\ (sp[1] = 1 \/ s[sp[1] - 1] \notin WordChars)
                /\ (sp[2] = Len(s) \/ s[sp[2] + 1] \notin WordChars)}}

\* the score the description gives a candidate
DescribedScore(candidate, original_tokens) ==
    LET length   == Len(candidate)
        lowered  == Lower(candidate)
        generic  == \/ StartsWith(lowered, <<"w", "e", "l", "c", "o", "m", "e", " ", "t", "o">>)
                    \/ StartsWith(lowered, <<"t", "h", "e">>)
                    \/ StartsWith(lowered, <<"a", " ">>)
    IN  (IF 20 <= length /\ length <= 50 THEN 2 ELSE IF length < 70 THEN 1 ELSE 0)
            + Cardinality(LowerTokens(candidate) \cap original_tokens)
            - (IF generic THEN 1 ELSE 0)

\* the candidates with their described scores
DescribedScores ==
    LET original_tokens == LowerTokens(select.original_title)
    IN  [c \in SuggestedTitles(select.title_response) |-> DescribedScore(c, original_tokens)]

\* C12: selectBest returns, hard-cut to 100 characters, a deduplicated candidate of
\* maximal score and, among the candidates of maximal score, of minimal length, where
\* score = (2 if 20 <= length <= 50, else 1 if length < 70, else 0) + the number of
\* distinct lowercase word tokens shared with the original title - (1 if the lowercased
\* candidate starts with 'welcome to', 'the' or 'a '); with zero candidates it returns
\* the first 100 characters of the original title.
C12_BestScoredCandidate ==
    select.called =>
        LET score == DescribedScores
            candidates == DOMAIN score
        IN  IF candidates = {} THEN select.result = HardCut(select.original_title)
            ELSE \E c \in candidates :
                    /\ select.result = HardCut(c)
                    /\ \A d \in candidates : score[d] <= score[c]
                    /\ \A d \in candidates : score[d] = score[c] => Len(c) <= Len(d)

\* Several candidates of different scores were there to choose from, and a shorter
\* candidate lost to a longer one of higher score.
C12_Witness ==
    /\ select.called
    /\ LET score == DescribedScores
       IN  /\ select.result \in DOMAIN score
           /\ \E d \in DOMAIN score :
                 /\ score[d] < score[select.result]
                 /\ Len(d) < Len(select.result)

\* The only candidate is longer than 100 characters and is returned cut to 100.
SelectCutReached ==
    /\ select.called
    /\ \E c \in SuggestedTitles(select.title_response) :
          Len(c) > 100 /\ select.result = HardCut(c) /\ Len(select.result) = 100

\* With no candidate the original title, longer than 100 characters, is returned cut.
SelectFallbackReached ==
    /\ select.called
    /\ select.title_response # <<>>
    /\ SuggestedTitles(select.title_response) = {}
    /\ Len(select.original_title) > 100
    /\ Len(select.result) = 100

\* Two candidates of the same score and length: either can be returned.
SelectTieReached ==
    /\ select.called
    /\ LET score == DescribedScores
       IN  \E d \in DOMAIN score :
              d # select.result /\ select.result \in DOMAIN score
                 /\ score[d] = score[select.result] /\ Len(d) = Len(select.result)

\* the response has no bullet-prefixed line and no double-asterisk-enclosed span
Unstructured(title_response) ==
    /\ BulletMatches(title_response, 1) = <<>>
    /\ AsteriskMatches(title_response, 1) = <<>>

StartsWithFiller(t) ==
    \/ StartsWith(t, <<"H", "e", "r", "e">>)
    \/ StartsWith(t, <<"T", "h", "e", " ", "b", "e", "s", "t">>)
    \/ StartsWith(t, <<"#">>)

\* C13: when the response has no bullet-prefixed line and no double-asterisk-enclosed
\* span, no candidate that selectBest scores starts with 'Here', 'The best' or '#', and
\* so the title it returns, unless it is the fallback to the original title, does not
\* start with one of these prefixes.
C13_NoFillerCandidate ==
    (select.called /\ Unstructured(select.title_response)) =>
        LET candidates == SuggestedTitles(select.title_response)
        IN  /\ \A c \in candidates : ~StartsWithFiller(c)
            /\ candidates # {} => ~StartsWithFiller(select.result)

\* A line is indented when white space precedes its first other character.
HasIndentedLine(title_response) ==
    LET lines == Split(title_response, NL)
    IN  \E i \in 1..Len(lines) :
           /\ Strip(lines[i]) # <<>>
           /\ lines[i][1] \in Whitespace

\* No filler candidate is scored when no line of the response is indented.
NoFillerCandidateUnlessIndented ==
    (select.called /\ Unstructured(select.title_response)
        /\ ~HasIndentedLine(select.title_response)) =>
        LET candidates == SuggestedTitles(select.title_response)
        IN  /\ \A c \in candidates : ~StartsWithFiller(c)
            /\ candidates # {} => ~StartsWithFiller(select.result)

\* A filler line was dropped and another line of the response became the title.
FillerLineDropped ==
    /\ select.called
    /\ Unstructured(select.title_response)
    /\ ~HasIndentedLine(select.title_response)
    /\ \E i \in 1..Len(Split(select.title_response, NL)) :
          StartsWithFiller(Split(select.title_response, NL)[i])
    /\ select.result \in SuggestedTitles(select.title_response)

\* An indented filler line is returned as the title.
IndentedFillerReturned ==
    /\ select.called
    /\ Unstructured(select.title_response)
    /\ select.result \in SuggestedTitles(select.title_response)
    /\ StartsWithFiller(select.result)

====
